---------------------------- MODULE Spec2Model ----------------------------
(***************************************************************************)
(* Model of mooncalc.py: the rise/set solver get_moon_times and the        *)
(* refraction correction astro_refraction.                                 *)
(*                                                                         *)
(* Python floats are modelled as exact real numbers of the form            *)
(*     (n + s * sqrt(m)) / den                                             *)
(* (n, s integers, m a squarefree natural, den a positive natural), which  *)
(* is closed under every operation the solver applies to the altitude      *)
(* samples when these are rational.  Every number carries the Python type  *)
(* it has at run time (fl = TRUE for float, FALSE for int), because the    *)
(* code's behaviour depends on it (0 versus 0.0, int & float).             *)
(*                                                                         *)
(* Altitudes are measured in units of hc = 0.133 * RAD, so hc is 1.        *)
(***************************************************************************)
EXTENDS Integers, Sequences, FiniteSets, TLC

\* ------------------------------------------------------------------ bounds
\* altitude samples h(k) = altitude - hc range over -MaxAlt..MaxAlt at the
\* odd hours (the window centres) and over -MaxEdge..MaxEdge at the even
\* hours (the window boundaries)
MaxAlt == 2
MaxEdge == 1
\* astro_refraction is applied to k * 10^-2 rad, k in -MaxRefr..MaxRefr
MaxRefr == 60

\* --------------------------------------------------------------- constants
DAYS_SEC == 86400
\* hc = 0.133 * RAD; the unit of altitude in this model
hc == 1
\* [2*i + 1 for i in range(12)]
Windows == {2 * k + 1 : k \in 0..11}
LastWindow == 23
\* 0.08901179, 0.00312536 and 0.0002967 in units of 10^-8
RefrC1 == 8901179
RefrC2 == 312536
RefrC3 == 29670

\* -------------------------------------------------------------- arithmetic
IAbs(k) == IF k < 0 THEN -k ELSE k

RECURSIVE GCD(_, _)
GCD(x, y) == IF y = 0 THEN x ELSE GCD(y, x % y)

\* the canonical number (n + s*sqrt(m)) / den: den > 0, the fraction in
\* lowest terms, and s = 0, m = 1 when the number is rational
Norm(n, s, m, den, fl) ==
    LET nn == IF m = 1 THEN n + s ELSE n
        ss == IF m = 1 THEN 0 ELSE s
        sg == IF den < 0 THEN -1 ELSE 1
        g  == GCD(GCD(IAbs(nn), IAbs(ss)), IAbs(den))
    IN  [n |-> sg * (nn \div g), s |-> sg * (ss \div g),
         m |-> IF ss = 0 THEN 1 ELSE m, den |-> IAbs(den) \div g, fl |-> fl]

\* a Python int
PyInt(k) == [n |-> k, s |-> 0, m |-> 1, den |-> 1, fl |-> FALSE]
\* a Python float with a rational value
PyFloat(n, den) == Norm(n, 0, 1, den, TRUE)

Radicand(x, y) == IF x.s # 0 THEN x.m ELSE y.m

Add(x, y) == Norm(x.n * y.den + y.n * x.den, x.s * y.den + y.s * x.den,
                  Radicand(x, y), x.den * y.den, x.fl \/ y.fl)
Neg(x) == [x EXCEPT !.n = -x.n, !.s = -x.s]
Sub(x, y) == Add(x, Neg(y))
Mul(x, y) == Norm(x.n * y.n + x.s * y.s * Radicand(x, y), x.n * y.s + x.s * y.n,
                  Radicand(x, y), x.den * y.den, x.fl \/ y.fl)
\* true division by a rational, non-zero y; the result is always a float
Div(x, y) == Norm(x.n * y.den, x.s * y.den, x.m, x.den * y.n, TRUE)

\* sign of n + s*sqrt(m)
Sign(x) ==
    LET g == GCD(IAbs(x.n), IAbs(x.s))
        n == IF g = 0 THEN 0 ELSE x.n \div g
        s == IF g = 0 THEN 0 ELSE x.s \div g
        q == s * s * x.m - n * n
    IN  IF s = 0 THEN (IF n > 0 THEN 1 ELSE IF n < 0 THEN -1 ELSE 0)
        ELSE IF n >= 0 /\ s > 0 THEN 1
        ELSE IF n <= 0 /\ s < 0 THEN -1
        ELSE IF s > 0 THEN (IF q > 0 THEN 1 ELSE IF q < 0 THEN -1 ELSE 0)
        ELSE (IF q > 0 THEN -1 ELSE IF q < 0 THEN 1 ELSE 0)

Lt(x, y) == Sign(Sub(x, y)) < 0
Le(x, y) == Sign(Sub(x, y)) <= 0
IsZero(x) == Sign(x) = 0
\* truth value of a number in a Python condition
Truthy(x) == ~IsZero(x)
AbsN(x) == IF Sign(x) < 0 THEN Neg(x) ELSE x

\* largest k with k*k dividing N (N > 0), searched from k upwards
RECURSIVE SqFactor(_, _)
SqFactor(N, k) ==
    IF k * k > N THEN 1
    ELSE IF N % (k * k) = 0 THEN k * SqFactor(N \div (k * k), k)
    ELSE SqFactor(N, k + 1)

\* math.sqrt of a rational x >= 0
Sqrt(x) ==
    LET N == x.n * x.den
        k == SqFactor(N, 2)
    IN  IF N = 0 THEN PyFloat(0, 1) ELSE Norm(0, k, N \div (k * k), x.den, TRUE)

\* ------------------------------------------------------------------- state
VARIABLES
    t,          \* midnight of the scanned day, seconds since the epoch
    i,          \* centre of the window last entered (-1 before the loop)
    h0, h1, h2, \* horizon-corrected altitudes at hours i-1, i, i+1
    rise, set,  \* offsets in hours of the recorded crossings, 0 if none
    ye,         \* vertex value of the last fitted parabola
    pc,         \* "loop", "break", "returned", "ZeroDivisionError", "TypeError"
    result,     \* the MoonTimesStruct returned
    lastQuery,  \* hour after midnight and altitude of the last get_moon_position call
    refrArg,    \* argument of the last astro_refraction call
    refr        \* its outcome

vars == <<t, i, h0, h1, h2, rise, set, ye, pc, result, lastQuery, refrArg, refr>>
moonVars == <<t, i, h0, h1, h2, rise, set, ye, pc, result, lastQuery>>

\* altitudes get_moon_position can answer, in units of hc, at a window
\* centre and at a window boundary
Altitudes == {PyFloat(k + hc, 1) : k \in -MaxAlt..MaxAlt}
EdgeAltitudes == {PyFloat(k + hc, 1) : k \in -MaxEdge..MaxEdge}
\* the scanned day is 1970-01-02 UTC
Midnights == {DAYS_SEC}

\* (mutant) minutes instead of hours
hours_later_minutes(date, h) == Add(date, Mul(PyInt(60), h))

hours_later(date, h) == Add(date, Mul(PyInt(60 * 60), h))

\* ------------------------------------------------- the parabola of a window
\* a = (h0 + h2) / 2 - h1
FitA(y0, y1, y2) == Sub(Div(Add(y0, y2), PyInt(2)), y1)
\* b = (h2 - h0) / 2
FitB(y0, y1, y2) == Div(Sub(y2, y0), PyInt(2))
\* xe = -b / (2 * a), defined for a # 0
FitXe(a, b) == Div(Neg(b), Mul(PyInt(2), a))
\* ye = (a * xe + b) * xe + h1
FitYe(a, b, xe, y1) == Add(Mul(Add(Mul(a, xe), b), xe), y1)
\* d = b * b - 4 * a * h1
FitD(a, b, y1) == Sub(Mul(b, b), Mul(Mul(PyInt(4), a), y1))
\* dx = sqrt(d) / (abs(a) * 2), defined for d >= 0 and a # 0
FitDx(a, d) == Div(Sqrt(d), Mul(AbsN(a), PyInt(2)))

\* if abs(x1) <= 1: roots+=1 ; if abs(x2) <= 1: roots+=1
CountRoots(x1, x2) ==
    (IF Le(AbsN(x1), PyInt(1)) THEN 1 ELSE 0) + (IF Le(AbsN(x2), PyInt(1)) THEN 1 ELSE 0)

\* (mutant) the statement 'if x1 < -1: x1 = x2' left out
SwapX1Never(x1, x2) == x1

\* if x1 < -1: x1 = x2
SwapX1(x1, x2) == IF Lt(x1, PyInt(-1)) THEN x2 ELSE x1

\* every local of one loop body, from the samples of its window
Fit(y0, y1, y2) ==
    LET a  == FitA(y0, y1, y2)
        b  == FitB(y0, y1, y2)
    IN  IF IsZero(a) THEN [raises |-> TRUE, a |-> a, b |-> b]
        ELSE
        LET xe == FitXe(a, b)
            ye_ == FitYe(a, b, xe, y1)
            d  == FitD(a, b, y1)
        IN  IF Sign(d) >= 0
            THEN LET dx == FitDx(a, d)
                     x1 == Sub(xe, dx)
                     x2 == Add(xe, dx)
                 IN  [raises |-> FALSE, a |-> a, b |-> b, xe |-> xe, ye |-> ye_,
                      d |-> d, roots |-> CountRoots(x1, x2),
                      r1 |-> x1, r2 |-> x2, x1 |-> SwapX1(x1, x2), x2 |-> x2]
            ELSE [raises |-> FALSE, a |-> a, b |-> b, xe |-> xe, ye |-> ye_,
                  d |-> d, roots |-> 0,
                  r1 |-> PyInt(0), r2 |-> PyInt(0), x1 |-> PyInt(0), x2 |-> PyInt(0)]

\* h = get_moon_position(...).altitude - hc, tabulated for the answers in
\* Altitudes and EdgeAltitudes
AltOf == [alt \in Altitudes \cup EdgeAltitudes |-> Sub(alt, PyFloat(hc, 1))] @@ <<>>

\* the loop body's locals for every window the samples can form, tabulated
\* by the (integer) values of h0, h1, h2
FitTable ==
    [w \in (-MaxEdge..MaxEdge) \X (-MaxAlt..MaxAlt) \X (-MaxEdge..MaxEdge) |->
        Fit(PyFloat(w[1], 1), PyFloat(w[2], 1), PyFloat(w[3], 1))] @@ <<>>
FitOf(y0, y1, y2) == FitTable[<<y0.n, y1.n, y2.n>>]

\* (mutant) the two roots of a two-root window exchanged
NewRiseSwapped(f, y0, c, old) ==
    IF f.roots = 1 THEN (IF Sign(y0) < 0 THEN Add(PyInt(c), f.x1) ELSE old)
    ELSE IF f.roots = 2
         THEN Add(PyInt(c), IF Sign(f.ye) < 0 THEN f.x1 ELSE f.x2)
    ELSE old

\* if roots == 1: if (h0 < 0): rise = i + x1
\* elif roots == 2: rise = i + (x2 if ye < 0 else x1)
NewRise(f, y0, c, old) ==
    IF f.roots = 1 THEN (IF Sign(y0) < 0 THEN Add(PyInt(c), f.x1) ELSE old)
    ELSE IF f.roots = 2
         THEN Add(PyInt(c), IF Sign(f.ye) < 0 THEN f.x2 ELSE f.x1)
    ELSE old

\* if roots == 1: if (h0 < 0): ... else: set = i + x1
\* elif roots == 2: set = i + (x1 if ye < 0 else x2)
NewSet(f, y0, c, old) ==
    IF f.roots = 1 THEN (IF Sign(y0) < 0 THEN old ELSE Add(PyInt(c), f.x1))
    ELSE IF f.roots = 2
         THEN Add(PyInt(c), IF Sign(f.ye) < 0 THEN f.x1 ELSE f.x2)
    ELSE old

\* (mutant) the scan never stops early
BreakNever(r, s) == FALSE

\* if rise and set: break
Break(r, s) == Truthy(r) /\ Truthy(s)

\* (mutant) the centre sample carried instead of the last one
CarryH1(y0, y1, y2) == y1

\* h0 = h2, the last statement of the loop body
Carry(y0, y1, y2) == y2

\* --------------------------------------------------------------- the return
\* x & y is defined on ints only
BitAndRaises(x, y) == x.fl \/ y.fl
RECURSIVE BitAndNat(_, _)
BitAndNat(x, y) ==
    IF x = 0 \/ y = 0 THEN 0
    ELSE (x % 2) * (y % 2) + 2 * BitAndNat(x \div 2, y \div 2)
\* the value of x & y for ints x, y >= 0
BitAnd(x, y) == BitAndNat(x.n, y.n)

\* not rise and not set & ye > 0   parses as
\* (not rise) and (not ((set & ye) > 0)); "and" skips its right side when
\* the left one is false
AlwaysUpRaises(r, s, y) == ~Truthy(r) /\ BitAndRaises(s, y)
\* (mutant) the flag decided by ye alone
AlwaysUpYeOnly(r, s, y) == Sign(y) > 0

AlwaysUp(r, s, y) == ~Truthy(r) /\ ~(BitAnd(s, y) > 0)
\* not rise and not set and ye <= 0
AlwaysDown(r, s, y) == ~Truthy(r) /\ ~Truthy(s) /\ Sign(y) <= 0

\* hours_later(t, rise) if rise else -1
Report(date, off) == IF Truthy(off) THEN hours_later(date, off) ELSE PyInt(-1)

NoResult == [rise |-> PyInt(0), set |-> PyInt(0), alwaysup |-> FALSE, alwaysdown |-> FALSE]

\* ------------------------------------------------------------ refraction
\* (mutant) no clamp
ClampNone(h) == h

\* if h < 0: h = 0
Clamp(h) == IF h < 0 THEN 0 ELSE h

\* 0.0002967 / tan(h + 0.00312536 / (h + 0.08901179)), h in units of 10^-8;
\* tan is not evaluated: the outcome records its argument h + num / den
astro_refraction(h) ==
    LET hh  == Clamp(h)
        den == hh + RefrC1
    IN  IF den = 0
        THEN [called |-> TRUE, raises |-> TRUE, h |-> hh, num |-> RefrC2, den |-> den, scale |-> RefrC3]
        ELSE [called |-> TRUE, raises |-> FALSE, h |-> hh, num |-> RefrC2, den |-> den, scale |-> RefrC3]

NotCalled == [called |-> FALSE, raises |-> FALSE, h |-> 0, num |-> 0, den |-> 1, scale |-> 0]

RefrInputs == {k * 1000000 : k \in -MaxRefr..MaxRefr} \cup {-RefrC1 - 1, -RefrC1, -RefrC1 + 1}

\* ------------------------------------------------------------------ actions
\* the state after line 240: h0 sampled at midnight, everything else 0
Init ==
    /\ t \in Midnights
    /\ \E alt \in EdgeAltitudes :
         /\ h0 = AltOf[alt]
         /\ lastQuery = [hour |-> 0, altitude |-> alt]
    /\ i = -1
    /\ h1 = PyInt(0) /\ h2 = PyInt(0)
    /\ rise = PyInt(0) /\ set = PyInt(0) /\ ye = PyInt(0)
    /\ pc = "loop"
    /\ result = NoResult
    /\ refrArg = 0 /\ refr = NotCalled

\* one pass through the loop body, lines 244-273
Window ==
    /\ pc = "loop"
    /\ i < LastWindow
    /\ \E alt1 \in Altitudes, alt2 \in EdgeAltitudes :
         LET c  == i + 2
             y1 == AltOf[alt1]
             y2 == AltOf[alt2]
             f  == FitOf(h0, y1, y2)
         IN  /\ i' = c
             /\ h1' = y1
             /\ h2' = y2
             /\ lastQuery' = [hour |-> c + 1, altitude |-> alt2]
             /\ IF f.raises
                THEN /\ pc' = "ZeroDivisionError"
                     /\ UNCHANGED <<h0, rise, set, ye>>
                ELSE LET r == NewRise(f, h0, c, rise)
                         s == NewSet(f, h0, c, set)
                     IN  /\ ye' = f.ye
                         /\ rise' = r
                         /\ set' = s
                         /\ IF Break(r, s)
                            THEN pc' = "break" /\ h0' = h0
                            ELSE pc' = "loop" /\ h0' = Carry(h0, y1, y2)
    /\ UNCHANGED <<t, result, refrArg, refr>>

\* the return statement, lines 275-278
Return ==
    /\ pc = "break" \/ (pc = "loop" /\ i = LastWindow)
    /\ IF AlwaysUpRaises(rise, set, ye)
       THEN pc' = "TypeError" /\ UNCHANGED result
       ELSE /\ pc' = "returned"
            /\ result' = [rise |-> Report(PyInt(t), rise), set |-> Report(PyInt(t), set),
                          alwaysup |-> AlwaysUp(rise, set, ye),
                          alwaysdown |-> AlwaysDown(rise, set, ye)]
    /\ UNCHANGED <<t, i, h0, h1, h2, rise, set, ye, lastQuery, refrArg, refr>>

Next == Window \/ Return

Spec == Init /\ [][Next]_vars

\* a call of astro_refraction
Refract ==
    /\ \E h \in RefrInputs :
         /\ refrArg' = h
         /\ refr' = astro_refraction(h)
    /\ UNCHANGED moonVars

NextRefraction == Refract

SpecRefraction == Init /\ [][NextRefraction]_vars

\* ------------------------------------------------------------------ claims
Absent == PyInt(-1)
Present(x) == x # Absent
\* a crossing was recorded in the variable: offsets are floats, the initial 0 an int
Recorded(off) == off.fl
InWindow(x) == Le(AbsN(x), PyInt(1))
\* the step is a completed pass through the loop body
BodyStep == i' # i /\ pc' # "ZeroDivisionError"

\* C1: in every result returned, alwaysup and alwaysdown are not both true,
\* and neither is true when rise or set is present (not -1).
C1_FlagsExclusive ==
    pc = "returned" =>
        /\ ~(result.alwaysup /\ result.alwaysdown)
        /\ (Present(result.rise) \/ Present(result.set))
              => (~result.alwaysup /\ ~result.alwaysdown)

\* a result with a rise and no set, after a scan of the whole day
C1_Witness ==
    pc = "returned" /\ i = LastWindow /\ Present(result.rise) /\ ~Present(result.set)

\* C2: when the scan ends with no crossing found, get_moon_times returns a
\* result with rise and set absent and exactly one flag set: alwaysup if the
\* last ye is positive, alwaysdown otherwise.
C2_NoCrossingReturns ==
    (pc \in {"returned", "TypeError"} /\ ~Recorded(rise) /\ ~Recorded(set)) =>
        /\ pc = "returned"
        /\ ~Present(result.rise) /\ ~Present(result.set)
        /\ result.alwaysup <=> Sign(ye) > 0
        /\ result.alwaysdown <=> Sign(ye) <= 0

\* C3 (as claimed): once a window has recorded a rise (a set), no later
\* window changes the recorded rise (set).
C3_FirstFoundGoverns ==
    [][/\ Recorded(rise) => rise' = rise
       /\ Recorded(set) => set' = set]_vars

\* C3 (amended): once both a non-zero rise and a non-zero set are recorded
\* the scan stops, and neither is changed afterwards.
C3_StopsOnceBothFound ==
    [][(Truthy(rise) /\ Truthy(set)) =>
           (rise' = rise /\ set' = set /\ i' = i /\ pc' # "loop")]_vars

\* the scan left early, with both crossings recorded
C3_Witness ==
    pc = "break" /\ i < LastWindow /\ Truthy(rise) /\ Truthy(set)

\* C4: the parabola fit never raises, collinear samples included.
C4_FitIsTotal == pc # "ZeroDivisionError"

\* C5: every present rise or set of a result is midnight + 3600 * offset,
\* the offset is within one hour of a window centre of the scan, and the
\* timestamp lies in [midnight, midnight + 24 h].
C5_Reported(stamp, off) ==
    Present(stamp) =>
        /\ stamp = Add(PyInt(t), Mul(PyInt(3600), off))
        /\ \E w \in Windows : w <= i /\ InWindow(Sub(off, PyInt(w)))
        /\ Le(PyInt(t), stamp) /\ Le(stamp, PyInt(t + DAYS_SEC))

C5_WithinDay ==
    pc = "returned" => C5_Reported(result.rise, rise) /\ C5_Reported(result.set, set)

\* a result whose set precedes its rise
C5_Witness ==
    /\ pc = "returned" /\ Present(result.rise) /\ Present(result.set)
    /\ Lt(result.set, result.rise)

\* which root of a window's parabola is the only one of magnitude <= 1:
\* 1 for the smaller root, 2 for the larger, 0 if there is no such root
\* (no real root, both roots inside, or both outside)
C6_Roots ==
    [w \in DOMAIN FitTable |->
        LET f == FitTable[w]
        IN  IF f.raises \/ Sign(f.d) < 0 THEN 0
            ELSE IF InWindow(f.r1) /\ ~InWindow(f.r2) THEN 1
            ELSE IF InWindow(f.r2) /\ ~InWindow(f.r1) THEN 2
            ELSE 0] @@ <<>>

\* C6: in a window with exactly one root of magnitude <= 1 the crossing is
\* recorded at i + that root, as a rise if h0 < 0 and as a set otherwise, and
\* the other kind keeps its value.
C6_OneRoot ==
    [][BodyStep =>
        LET f == FitOf(h0, h1', h2')
            one == C6_Roots[<<h0.n, h1'.n, h2'.n>>]
        IN  (one # 0) =>
              LET x == IF one = 1 THEN f.r1 ELSE f.r2
              IN  IF Sign(h0) < 0
                  THEN rise' = Add(PyInt(i'), x) /\ set' = set
                  ELSE set' = Add(PyInt(i'), x) /\ rise' = rise]_vars

\* the scan stopped in a one-root window whose earlier root lies before the
\* window and whose later root was recorded as the rise
C6_Witness ==
    /\ pc = "break"
    /\ LET f == FitOf(h0, h1, h2)
       IN  /\ Sign(f.d) >= 0 /\ ~InWindow(f.r1) /\ InWindow(f.r2)
           /\ Sign(h0) < 0 /\ rise = Add(PyInt(i), f.r2)

\* C7: in a window with both roots of magnitude <= 1, rise and set are both
\* recorded: rise = i + x2 and set = i + x1 if ye < 0, rise = i + x1 and
\* set = i + x2 otherwise.
C7_TwoRoots ==
    [][BodyStep =>
        LET f == FitOf(h0, h1', h2')
        IN  (Sign(f.d) >= 0 /\ InWindow(f.r1) /\ InWindow(f.r2)) =>
              IF Sign(f.ye) < 0
              THEN rise' = Add(PyInt(i'), f.r2) /\ set' = Add(PyInt(i'), f.r1)
              ELSE rise' = Add(PyInt(i'), f.r1) /\ set' = Add(PyInt(i'), f.r2)]_vars

\* the scan stopped in a window that dips below the horizon between two
\* distinct roots
C7_Witness ==
    /\ pc = "break"
    /\ LET f == FitOf(h0, h1, h2)
       IN  /\ Sign(f.d) > 0 /\ InWindow(f.r1) /\ InWindow(f.r2) /\ Sign(f.ye) < 0
           /\ rise = Add(PyInt(i), f.r2) /\ set = Add(PyInt(i), f.r1)

C9_RecordedIsReported ==
    pc = "returned" =>
        /\ ~Present(result.rise) => ~Recorded(rise)
        /\ ~Present(result.set) => ~Recorded(set)

\* C10: astro_refraction never divides by zero, its inner denominator is
\* positive, and for h < 0 its result is that of astro_refraction(0).
C10_ClampGuardsSingularity ==
    refr.called =>
        /\ ~refr.raises
        /\ refr.den > 0
        /\ refrArg < 0 => refr = astro_refraction(0)

\* astro_refraction was applied to the singular altitude
C10_Witness == refr.called /\ refrArg = -RefrC1 /\ ~refr.raises

=============================================================================
